---- MODULE Spec2Model ----
(***************************************************************************)
(* Voice management of the poly / mono Web Audio synth (class Synth and    *)
(* class Voice of synth.js, ES-module variant).                            *)
(*                                                                         *)
(* Units.  Time is the audio clock in milliseconds (ctx.currentTime *      *)
(* 1000).  Gains are fixed point, GainOne units = 1.0, chosen so that      *)
(* velocity / 127 is exact.  Frequencies are in 1/100 Hz.                  *)
(***************************************************************************)
EXTENDS Integers, Sequences, FiniteSets, TLC

VARIABLES
  now,          \* ctx.currentTime, ms
  mono,         \* params.mono
  glideMs,      \* params.glideMs
  voices,       \* keys of the Map `voices`, in insertion order
  voice,        \* the Voice objects still referenced (map or pending timer)
  noteStacks,   \* Map midiNote -> [voiceId, ...]
  pressedNotes, \* Set of held notes (mono handling)
  voiceCounter, \* this.voiceCounter
  monoVoiceId,  \* this.monoVoiceId, NoId for null
  timers,       \* pending setTimeout callbacks of Voice.release
  params,       \* the other fields of this.params (sound and FX settings)
  fx,           \* what the nodes of the FX graph are set to
  \* main.js (ES-module variant), one Synth object per sounding note
  ctxState,        \* "null" while ctx is null, else ctx.state
  midiInitialized, \* midiInitialized: the MIDIengine callbacks are attached
  mainVoices,      \* the Map `voices` of main.js: midiNote -> Synth object
  synths,          \* the Synth objects main.js has created
  pending,         \* click handlers suspended at `await`, oldest first
  startDisabled,   \* startBtn.disabled
  stopDisabled,    \* stopBtn.disabled
  \* the player of the engine
  keysDown,        \* the keys of the keyboard that are held down
  \* main.js (classic-script variant) with WebInstrument.Synth
  classicCtx,      \* ctx is set: Start Audio has been clicked
  monoEnabled,     \* monoEnabled
  classicVoices,   \* the Map `voices`: note -> array of Synth objects, as
                   \* the sequence of its entries in insertion order
  classicSynths,   \* the WebInstrument.Synth objects created
  \* synth.js (classic-script variant)
  synthVoice,      \* one SynthVoice object
  \* class PolySynth (ES-module variant with legato glide)
  active,          \* this.active: note -> array of its SynthVoice objects
  lastFreq,        \* this.lastFreq, NullFreq for null
  polyVoices,      \* the SynthVoice objects PolySynth has created
  polyGlideMs      \* this.glideMs, 0 while it is undefined

fxVars == <<params, fx>>

engineVars == <<now, mono, glideMs, voices, voice, noteStacks, pressedNotes,
                voiceCounter, monoVoiceId, timers, fxVars>>

mainVars == <<ctxState, midiInitialized, mainVoices, synths, pending,
              startDisabled, stopDisabled>>

classicVars == <<classicCtx, monoEnabled, classicVoices, classicSynths>>

\* the state of the pages and of the other synth classes
polyVars == <<active, lastFreq, polyVoices, polyGlideMs>>

appVars == <<mainVars, classicVars, synthVoice, polyVars>>

\* what the module main.js does not touch
outsideMain == <<engineVars, keysDown, classicVars, synthVoice, polyVars>>

vars == <<engineVars, appVars, keysDown>>

----------------------------------------------------------------------------
(* Bounds of the model *)

\* params.maxVoices (16 in the source), scaled down
maxVoices == 2
\* cap on voiceCounter (voices ever created) under Spec
MaxVoiceCounter == 3
\* cap on voiceCounter under SpecEnv
EnvMaxVoiceCounter == 1
\* cap on voiceCounter under SpecLive
LiveMaxVoiceCounter == 2
\* cap on voiceCounter under SpecKeys
KeysMaxVoiceCounter == 3
\* last instant of the audio clock that is explored
MaxTime == 400
\* cap on the Synth objects main.js creates under SpecMain
MaxSynths == 3
\* cap on the click handlers waiting at an `await` under SpecMain
MaxPending == 2
\* cap on the Synth objects the classic main.js creates under SpecClassic
MaxClassicSynths == 2
\* cap on the voices stored in the Map of the classic main.js, over all notes
MaxClassicHeld == 3
\* cap on the SynthVoice objects PolySynth creates under SpecPoly
MaxPolyVoices == 3
\* number of echoes of the delay loop that are followed
MaxEchoes == 180

Notes == {60, 64}
GlideInputs == {[t |-> "number", v |-> -10], [t |-> "number", v |-> 0],
                [t |-> "number", v |-> 90]}

\* Spec: note velocities and the instants at which the control path runs
Velocities == {100}
TimeGrid == {0, 400}

\* SpecEnv: fewer voices, on a finer clock and with more velocities
EnvVelocities == {0, 100}
EnvTimeGrid == {0, 3, 45, 400}

\* SpecFx: arguments of the parameter setters, in 1/100 of the unit of the
\* parameter (setGlide: in ms): below and above every range, not numbers
FxInputs == {[t |-> "number", v |-> -100],
             [t |-> "number", v |-> 2000000000],
             [t |-> "string", v |-> 0],
             [t |-> "undefined", v |-> 0]}
FeedbackInputs == FxInputs \cup {[t |-> "number", v |-> 50],
                                 [t |-> "number", v |-> 96],
                                 [t |-> "number", v |-> 100]}
OscInputs == FxInputs \cup {[t |-> "number", v |-> 0],
                            [t |-> "number", v |-> 250],
                            [t |-> "number", v |-> 500000]}
FxGlideInputs == FxInputs \cup {[t |-> "number", v |-> 250]}
WaveInputs == {"", "square"}

\* SpecLive: the note played, arguments of setOscCount and
\* setDistortionDrive in 1/100
LiveNotes == {60}
LiveOscInputs == {[t |-> "number", v |-> 100], [t |-> "number", v |-> 200]}
LiveDriveInputs == {[t |-> "number", v |-> 0], [t |-> "number", v |-> 50]}

\* SpecMain: velocities of the MIDI note-on messages
MainVelocities == {0, 100}

\* SpecVoice: MIDI velocities handed to SynthVoice (0 for a missing one)
VoiceVelocities == {0, 64, 127}

\* SpecPoly: velocity of the notes in gain units (100 / 127), arguments of
\* setGlideMs
PolyVelocities == {1000000}
PolyGlides == {0, 90}

\* SpecClassic: velocity of the note-on messages in gain units (0.8),
\* values of the glide slider in ms
ClassicVelocities == {1016000}
ClassicGlides == {0, 90}

----------------------------------------------------------------------------
(* Program constants *)

NoId == 0
GainOne == 1270000
EnvAttack == 5
EnvDecay == 80
EnvSustainPct == 85
EnvRelease == 250
StopMargin == 50
EndedMargin == 100
\* 0.0001 in gain units
GainFloor == 127

----------------------------------------------------------------------------
(* Utils *)

Max(a, b) == IF a > b THEN a ELSE b
Min(a, b) == IF a < b THEN a ELSE b

\* slip: the upper limit is not applied
clamp_LowerOnly(v, a, b) == Max(a, v)

\* function clamp(v, a, b) { return Math.min(b, Math.max(a, v)); }
clamp(v, a, b) == Min(b, Max(a, v))

RECURSIVE Pow2(_)
Pow2(n) == IF n <= 0 THEN 1 ELSE 2 * Pow2(n - 1)

\* 2^(i/12) * 10000 for the twelve semitones of an octave
SemitoneRatio == <<10000, 10595, 11225, 11892, 12599, 13348,
                   14142, 14983, 15874, 16818, 17818, 18877>>

\* 440 * Math.pow(2, (m - 69) / 12), in 1/100 Hz
mtof(m) ==
  LET k    == m - 69
      oct  == k \div 12
      semi == k % 12
      base == 440 * SemitoneRatio[semi + 1]
  IN  IF oct >= 0 THEN (base * Pow2(oct)) \div 100
                  ELSE base \div (100 * Pow2(0 - oct))

\* Values handed to the setters: a number (t = "number", v its value, with
\* Infinity and -Infinity as two numbers beyond every other), or something
\* that is not a number and does not parse as one ("string", "undefined")
Infinity == 2000000000
Num(v) == [t |-> "number", v |-> v]
Text == [t |-> "string", v |-> 0]
Undefined == [t |-> "undefined", v |-> 0]

\* parseFloat(x): NaN for what is not numeric
parseFloat(x) ==
  IF x.t = "number" THEN [nan |-> FALSE, v |-> x.v]
                    ELSE [nan |-> TRUE, v |-> 0]

\* parseInt(x, 10) of a value given in 1/100: the integer part, NaN for
\* Infinity and for what is not numeric
parseInt(x) ==
  IF x.t = "number" /\ x.v # Infinity /\ x.v # 0 - Infinity
  THEN [nan |-> FALSE,
        v |-> IF x.v >= 0 THEN x.v \div 100 ELSE 0 - ((0 - x.v) \div 100)]
  ELSE [nan |-> TRUE, v |-> 0]

\* r || d for a number r: d when r is NaN or 0
orElse(r, d) == IF r.nan \/ r.v = 0 THEN d ELSE r.v

Put(f, k, v) == [x \in DOMAIN f \cup {k} |-> IF x = k THEN v ELSE f[x]]
Drop(f, k) == [x \in DOMAIN f \ {k} |-> f[x]]

----------------------------------------------------------------------------
(* AudioParam automation (Web Audio): a default value and a timeline of   *)
(* events, each setValueAtTime ("set") or linearRampToValueAtTime ("ramp") *)

SetEv(v, t) == [kind |-> "set", v |-> v, t |-> t]
RampEv(v, t) == [kind |-> "ramp", v |-> v, t |-> t]

\* index of the last event at or before t, 0 if none
RECURSIVE LastAt(_, _, _)
LastAt(s, t, i) ==
  IF i = 0 THEN 0
  ELSE IF s[i].t <= t THEN i ELSE LastAt(s, t, i - 1)

\* AudioParam.value read at time t
ParamValue(s, dflt, t) ==
  LET i == LastAt(s, t, Len(s))
  IN  IF i = 0 THEN dflt
      ELSE IF i < Len(s) /\ s[i + 1].kind = "ramp"
           THEN s[i].v + ((s[i + 1].v - s[i].v) * (t - s[i].t))
                           \div (s[i + 1].t - s[i].t)
           ELSE s[i].v

\* AudioParam.cancelScheduledValues(t): drops the events at or after t
cancelScheduledValues(s, t) == SelectSeq(s, LAMBDA e : e.t < t)

\* AudioParam.setValueAtTime(v, t).  The clock never goes back and the
\* param is only read at the current time, so the events before a set event
\* no longer contribute to any value read and are dropped from the timeline.
setValueAtTime(s, v, t) ==
  <<SetEv(v, t)>> \o SelectSeq(s, LAMBDA e : e.t > t)

\* AudioParam.linearRampToValueAtTime(v, t); every caller schedules the ramp
\* after all events of the timeline
linearRampToValueAtTime(s, v, t) == Append(s, RampEv(v, t))

----------------------------------------------------------------------------
(* WebInstrument.Synth (classic-script synth class used by main.js): one    *)
(* oscillator into the envelope gain `amp`                                  *)

WI_Attack == 10
WI_Decay == 120
WI_SustainPct == 70
WI_Release == 200
WI_StopMargin == 20

\* function Synth(ctx, destination, opts): amp.gain.value = 0, the
\* oscillator not started, no stop scheduled
WI_Synth ==
  [started   |-> FALSE,
   oscFreq   |-> <<>>,
   ampGain   |-> <<>>,
   oscStopAt |-> -1]

\* Synth.prototype.start(midiNote, velocity, when), velocity in gain units
WI_start(s, midiNote, velocity, t) ==
  LET g0 == setValueAtTime(cancelScheduledValues(s.ampGain, t), 0, t)
      g1 == linearRampToValueAtTime(g0, clamp(velocity, 0, GainOne),
                                    t + WI_Attack)
  IN  [s EXCEPT
         !.oscFreq = setValueAtTime(s.oscFreq, mtof(midiNote), t),
         !.started = TRUE,
         !.ampGain = linearRampToValueAtTime(g1,
                       clamp((velocity * WI_SustainPct) \div 100, 0, GainOne),
                       t + WI_Attack + WI_Decay)]

\* Synth.prototype.stop(when): release ramp, then the oscillator stops
WI_stop(s, t) ==
  LET cur == ParamValue(s.ampGain, 0, t)
      g0  == setValueAtTime(cancelScheduledValues(s.ampGain, t), cur, t)
  IN  [s EXCEPT
         !.ampGain = linearRampToValueAtTime(g0, 0, t + WI_Release),
         !.oscStopAt = t + WI_Release + WI_StopMargin]

----------------------------------------------------------------------------
(* SynthVoice of synth.js (classic script): oscillator -> filter -> `out`   *)

SV_AttackMs == 10
SV_ReleaseMs == 120
SV_HoldMs == 50
\* 0.35 and 0.95 in 1/100
SV_PeakPct == 35
SV_HoldPct == 95

\* function SynthVoice(audioCtx, destination, opts): out.gain.value = 0
NewSynthVoice ==
  [started |-> FALSE,
   oscFreq |-> <<>>,
   outGain |-> <<>>]

\* clamp(velocity || 100, 0, 127), then peak = (vel / 127) * 0.35
SV_peak(velocity) ==
  LET vel == clamp(IF velocity = 0 THEN 100 ELSE velocity, 0, 127)
  IN  (vel * 10000 * SV_PeakPct) \div 100

\* the envelope both start and retrigger schedule
SV_attackFrom(g, peak, t) ==
  LET g0 == setValueAtTime(cancelScheduledValues(g, t), GainFloor, t)
      g1 == linearRampToValueAtTime(g0, peak, t + SV_AttackMs)
  IN  linearRampToValueAtTime(g1, (peak * SV_HoldPct) \div 100,
                              t + SV_AttackMs + SV_HoldMs)

\* SynthVoice.prototype.start(freq, velocity)
SV_start(sv, freq, velocity, t) ==
  [sv EXCEPT !.started = TRUE,
             !.oscFreq = setValueAtTime(sv.oscFreq, freq, t),
             !.outGain = SV_attackFrom(sv.outGain, SV_peak(velocity), t)]

\* SynthVoice.prototype.retrigger(freq, velocity), freq a number
SV_retrigger(sv, freq, velocity, t) ==
  [sv EXCEPT !.started = TRUE,
             !.oscFreq = setValueAtTime(sv.oscFreq, freq, t),
             !.outGain = SV_attackFrom(sv.outGain, SV_peak(velocity), t)]

\* SynthVoice.prototype.stop()
SV_stop(sv, t) ==
  LET cur == ParamValue(sv.outGain, 0, t)
      g0  == setValueAtTime(cancelScheduledValues(sv.outGain, t), cur, t)
  IN  [sv EXCEPT
         !.outGain = linearRampToValueAtTime(g0, GainFloor, t + SV_ReleaseMs)]

----------------------------------------------------------------------------
(* SynthVoice and PolySynth of the ES-module variant with legato glide      *)

\* this.lastFreq = null
NullFreq == 0
PV_Attack == 5
PV_Decay == 80
PV_SustainPct == 65
\* this.R: time constant of the release, ms
PV_Release == 180
\* delay of the timer that stops the oscillator after a release, ms
PV_StopDelay == 300

\* new SynthVoice(ctx, out, { glideMs }): amp.gain.value = 0, the oscillator
\* started; nothing released yet
PV_new(glide) ==
  [glideMs   |-> glide,
   oscFreq   |-> <<>>,
   ampGain   |-> <<>>,
   released  |-> FALSE,
   target    |-> <<>>,
   stopDue   |-> -1,
   oscStopped |-> FALSE]

\* SynthVoice.trigger(freq, velocity, legatoFromFreq)
PV_trigger(pv, freq, velocity, legatoFromFreq, t) ==
  LET g0 == setValueAtTime(pv.ampGain, 0, t)
      g1 == linearRampToValueAtTime(g0, velocity, t + PV_Attack)
  IN  [pv EXCEPT
         !.oscFreq = IF legatoFromFreq # NullFreq
                     THEN linearRampToValueAtTime(
                            setValueAtTime(pv.oscFreq, legatoFromFreq, t),
                            freq, t + pv.glideMs)
                     ELSE setValueAtTime(pv.oscFreq, freq, t),
         !.ampGain = linearRampToValueAtTime(g1,
                       (velocity * PV_SustainPct) \div 100,
                       t + PV_Attack + PV_Decay)]

\* SynthVoice.release(): the schedule is cancelled, the gain decays towards
\* 0 with time constant R, and a timer is set that stops the oscillator
PV_release(pv, t) ==
  [pv EXCEPT !.ampGain = cancelScheduledValues(pv.ampGain, t),
             !.released = TRUE,
             !.target = <<[v |-> 0, t |-> t, tau |-> PV_Release]>>,
             !.stopDue = t + PV_StopDelay]

\* slip: a note counts as held at any time
anyHeld_Always(a) == TRUE

\* PolySynth._anyHeld()
anyHeld(a) == \E n \in DOMAIN a : Len(a[n]) > 0

----------------------------------------------------------------------------
(* class Voice *)

DefaultOscHz == 44000

ampGainValue(v, t) == ParamValue(v.ampGain, 0, t)
oscFreqValue(v, t) == ParamValue(v.oscFreq, DefaultOscHz, t)

\* constructor + _createOscillators: amp.gain.value = 0, every oscillator
\* gets frequency.setValueAtTime(freq, currentTime)
NewVoice(freq, t) ==
  [stopped  |-> FALSE,
   ampGain  |-> <<>>,
   freq     |-> freq,
   oscFreq  |-> setValueAtTime(<<>>, freq, t),
   stopAt   |-> -1,
   oscStopAt |-> -1,
   waveform |-> params.waveform,
   oscCount |-> params.oscCount,
   drive    |-> clamp(params.drive, 0, 100)]

\* slip: the glide starts at the previous target (lastFreq), not at the
\* frequency the oscillator has now
setFrequencySmooth_FromLast(v, freq, glide, t) ==
  LET t1   == t + Max(0, glide)
      s0   == cancelScheduledValues(v.oscFreq, t)
  IN  [v EXCEPT !.freq = freq,
                !.oscFreq = IF glide > 0
                            THEN linearRampToValueAtTime(
                                   setValueAtTime(s0, v.freq, t), freq, t1)
                            ELSE setValueAtTime(s0, freq, t)]

\* Voice.setFrequencySmooth(freq, glideMs), applied to every oscillator
setFrequencySmooth(v, freq, glide, t) ==
  LET t1   == t + Max(0, glide)
      cur  == oscFreqValue(v, t)
      s0   == cancelScheduledValues(v.oscFreq, t)
  IN  [v EXCEPT !.freq = freq,
                !.oscFreq = IF glide > 0
                            THEN linearRampToValueAtTime(
                                   setValueAtTime(s0, cur, t), freq, t1)
                            ELSE setValueAtTime(s0, freq, t)]

\* slip: the envelope is reset to zero before the attack
trigger_FromZero(v, vel, t) ==
  LET peak == Max(GainFloor, vel)
      s0   == cancelScheduledValues(v.ampGain, t)
      s1   == setValueAtTime(s0, 0, t)
      s2   == linearRampToValueAtTime(s1, peak, t + EnvAttack)
  IN  [v EXCEPT !.ampGain = linearRampToValueAtTime(s2,
                   (peak * EnvSustainPct) \div 100, t + EnvAttack + EnvDecay)]

\* Voice.trigger(vel)
trigger(v, vel, t) ==
  LET peak == Max(GainFloor, vel)
      cur  == ampGainValue(v, t)
      s0   == cancelScheduledValues(v.ampGain, t)
      s1   == setValueAtTime(s0, cur, t)
      s2   == linearRampToValueAtTime(s1, peak, t + EnvAttack)
  IN  [v EXCEPT !.ampGain = linearRampToValueAtTime(s2,
                   (peak * EnvSustainPct) \div 100, t + EnvAttack + EnvDecay)]

\* slip: the stopped flag is not consulted
release_Again(v, t) ==
  LET cur == ampGainValue(v, t)
      s0  == cancelScheduledValues(v.ampGain, t)
      s1  == setValueAtTime(s0, cur, t)
  IN  [v EXCEPT !.stopped = TRUE,
                !.ampGain = linearRampToValueAtTime(s1, GainFloor,
                                                    t + EnvRelease),
                !.stopAt = t + EnvRelease + StopMargin,
                !.oscStopAt = t + EnvRelease + StopMargin]

\* Voice.release(): the changes to the voice itself
release(v, t) ==
  IF v.stopped THEN v
  ELSE LET cur == ampGainValue(v, t)
           s0  == cancelScheduledValues(v.ampGain, t)
           s1  == setValueAtTime(s0, cur, t)
       IN  [v EXCEPT !.stopped = TRUE,
                     !.ampGain = linearRampToValueAtTime(s1, GainFloor,
                                                         t + EnvRelease),
                     !.stopAt = t + EnvRelease + StopMargin,
                     !.oscStopAt = t + EnvRelease + StopMargin]

\* slip: the callback is registered with no delay
releaseTimer_NoDelay(v, id, t) ==
  IF v.stopped THEN <<>>
  ELSE <<[id |-> id, due |-> t]>>

\* Voice.release(): the setTimeout it registers
releaseTimer(v, id, t) ==
  IF v.stopped THEN <<>>
  ELSE <<[id |-> id, due |-> t + EnvRelease + EndedMargin]>>

\* Voice._createOscillators(count, type, freq): the old oscillators are
\* stopped at once, the new ones start at this.freq with no stop scheduled
createOscillators(v, t) ==
  [v EXCEPT !.oscFreq = setValueAtTime(<<>>, v.freq, t),
            !.oscStopAt = -1]

\* Voice.setOscCount(n), n a whole number
Voice_setOscCount(v, n, t) ==
  LET count == Max(1, Min(3, orElse(parseInt(Num(n * 100)), 1)))
  IN  IF count = v.oscCount THEN v
      ELSE createOscillators([v EXCEPT !.oscCount = count], t)

\* Voice.setWaveform(type); "" stands for every falsy argument
Voice_setWaveform(v, type) ==
  [v EXCEPT !.waveform = IF type = "" THEN "sine" ELSE type]

\* Voice.setDrive(d)
Voice_setDrive(v, d) ==
  [v EXCEPT !.drive = clamp(orElse(parseFloat(Num(d)), 0), 0, 100)]

----------------------------------------------------------------------------
(* class Synth *)

\* this.params as the constructor leaves it.  Gains, mixes, ms and seconds
\* are in 1/100 of their unit.
InitParams ==
  [oscCount         |-> 1,
   waveform         |-> "sine",
   masterGain       |-> 60,
   delayMix         |-> 0,
   delayTimeMs      |-> 32000,
   delayFeedback    |-> 35,
   reverbMix        |-> 0,
   reverbDecaySec   |-> 280,
   reverbPreDelayMs |-> 2000,
   drive            |-> 0]

\* buildImpulse: the length of the impulse response, in ms
\* (decaySec + preDelayMs / 1000 seconds of samples)
buildImpulse(decaySec, preDelayMs) == decaySec * 10 + preDelayMs \div 100

\* the FX graph as the constructor leaves it: master.gain.value and the
\* targets that _applyDelayParams and _applyReverbParams(true) set
InitFx ==
  [masterGain    |-> InitParams.masterGain,
   delayMix      |-> InitParams.delayMix,
   delayTime     |-> InitParams.delayTimeMs,
   delayFeedback |-> InitParams.delayFeedback,
   reverbMix     |-> InitParams.reverbMix,
   impulseLen    |-> buildImpulse(InitParams.reverbDecaySec,
                                  InitParams.reverbPreDelayMs)]

Init ==
  /\ now = 0
  /\ mono = FALSE
  /\ glideMs = 90
  /\ voices = <<>>
  /\ voice = <<>>
  /\ noteStacks = <<>>
  /\ pressedNotes = {}
  /\ voiceCounter = 0
  /\ monoVoiceId = NoId
  /\ timers = <<>>
  /\ params = InitParams
  /\ fx = InitFx
  /\ ctxState = "null"
  /\ midiInitialized = FALSE
  /\ mainVoices = <<>>
  /\ synths = <<>>
  /\ pending = <<>>
  /\ startDisabled = FALSE
  /\ stopDisabled = FALSE
  /\ keysDown = {}
  /\ classicCtx = FALSE
  /\ monoEnabled = FALSE
  /\ classicVoices = <<>>
  /\ classicSynths = <<>>
  /\ synthVoice = NewSynthVoice
  /\ active = <<>>
  /\ lastFreq = NullFreq
  /\ polyVoices = <<>>
  /\ polyGlideMs = 0

InMap(id) == \E i \in 1..Len(voices) : voices[i] = id

\* voices.delete(id)
mapDelete(vs, id) == SelectSeq(vs, LAMBDA x : x # id)

\* slip: the id is left on the stack
spliceOut_Keep(stack, id) == stack

\* stack.indexOf(id); splice(idx, 1) when found
RECURSIVE spliceOut(_, _)
spliceOut(stack, id) ==
  IF stack = <<>> THEN <<>>
  ELSE IF Head(stack) = id THEN Tail(stack)
       ELSE <<Head(stack)>> \o spliceOut(Tail(stack), id)

\* slip: the limit is compared one too high
overLimit_Lax(vs) == Len(vs) > maxVoices + 1

\* this.voices.size > this.params.maxVoices
overLimit(vs) == Len(vs) > maxVoices

\* slip: the newest key instead of the oldest
oldestKey_Newest(vs) == vs[Len(vs)]

\* [...this.voices.keys()][0]
oldestKey(vs) == vs[1]

\* slip: shift() instead of pop()
popIndex_Fifo(stack) == 1

\* stack.pop(): the index of the entry it removes
popIndex(stack) == Len(stack)

\* slip: the held notes are not consulted
noneHeld_Always(pressed) == TRUE

\* this.pressedNotes.size === 0
noneHeld(pressed) == pressed = {}

\* slip: the new id replaces the stack of the note
stackPush_Replace(stack, vid) == <<vid>>

\* this.noteStacks.get(midiNote).push(vid)
stackPush(stack, vid) == Append(stack, vid)

\* slip: the counter is read without being advanced once ids were issued
nextId_Reused(counter) == IF counter = 0 THEN 1 ELSE counter

\* const id = ++this.voiceCounter
nextId(counter) == counter + 1

\* _createVoice(freq, vel): the voice object after trigger(vel)
createdVoice(freq, vel, t) == trigger(NewVoice(freq, t), vel, t)

\* noteOn(midiNote, velocity), mono branch
noteOnMono(n, velocity) ==
  LET freq == mtof(n)
      vel  == clamp(velocity * 10000, 0, GainOne)
  IN  /\ mono
      /\ IF monoVoiceId = NoId
         THEN /\ voiceCounter' = nextId(voiceCounter)
              /\ voice' = Put(voice, nextId(voiceCounter),
                              createdVoice(freq, vel, now))
              /\ voices' = Append(voices, nextId(voiceCounter))
              /\ monoVoiceId' = nextId(voiceCounter)
         ELSE /\ IF InMap(monoVoiceId)
                 THEN voice' = [voice EXCEPT ![monoVoiceId] =
                        trigger(setFrequencySmooth(@, freq, glideMs, now),
                                vel, now)]
                 ELSE voice' = voice
              /\ UNCHANGED <<voiceCounter, voices, monoVoiceId>>
      /\ pressedNotes' = pressedNotes \cup {n}
      /\ UNCHANGED <<now, mono, glideMs, noteStacks, timers, fxVars, appVars>>

\* noteOn(midiNote, velocity), poly branch with voice stealing
noteOnPoly(n, velocity) ==
  LET freq     == mtof(n)
      vel      == clamp(velocity * 10000, 0, GainOne)
      vid      == nextId(voiceCounter)
      voice1   == Put(voice, vid, createdVoice(freq, vel, now))
      voices1  == Append(voices, vid)
      stacks1  == Put(noteStacks, n,
                      stackPush(IF n \in DOMAIN noteStacks
                                THEN noteStacks[n] ELSE <<>>, vid))
      oldestId == oldestKey(voices1)
  IN  /\ ~mono
      /\ voiceCounter' = vid
      /\ IF overLimit(voices1)
         THEN /\ voice' = [voice1 EXCEPT ![oldestId] = release(@, now)]
              /\ timers' = timers \o releaseTimer(voice1[oldestId], oldestId, now)
              /\ voices' = mapDelete(voices1, oldestId)
              /\ noteStacks' = [k \in DOMAIN stacks1 |->
                                  spliceOut(stacks1[k], oldestId)]
         ELSE /\ voice' = voice1
              /\ voices' = voices1
              /\ noteStacks' = stacks1
              /\ timers' = timers
      /\ UNCHANGED <<now, mono, glideMs, pressedNotes, monoVoiceId, fxVars,
                     appVars>>

noteOn(n, velocity) ==
  /\ noteOnMono(n, velocity) \/ noteOnPoly(n, velocity)
  /\ UNCHANGED keysDown

\* noteOff(midiNote), mono branch
noteOffMono(n) ==
  LET pressed1 == pressedNotes \ {n}
      rel      == noneHeld(pressed1) /\ monoVoiceId # NoId
                  /\ InMap(monoVoiceId)
  IN  /\ mono
      /\ pressedNotes' = pressed1
      /\ IF rel
         THEN /\ voice' = [voice EXCEPT ![monoVoiceId] = release(@, now)]
              /\ timers' = timers \o
                           releaseTimer(voice[monoVoiceId], monoVoiceId, now)
         ELSE UNCHANGED <<voice, timers>>
      /\ UNCHANGED <<now, mono, glideMs, voices, noteStacks, voiceCounter,
                     monoVoiceId, fxVars, appVars>>

\* slip: an empty stack is set up for the note, as noteOn does
noteOffNoStack_CreatesEntry(n) ==
  /\ noteStacks' = Put(noteStacks, n, <<>>)
  /\ UNCHANGED <<voice, timers>>

\* noteOff(midiNote), poly branch, `if (stack && stack.length)` not taken
noteOffNoStack(n) == UNCHANGED <<noteStacks, voice, timers>>

\* noteOff(midiNote), poly branch
noteOffPoly(n) ==
  /\ ~mono
  /\ IF n \in DOMAIN noteStacks /\ Len(noteStacks[n]) > 0
     THEN LET stack == noteStacks[n]
              top   == popIndex(stack)
              vid   == stack[top]
          IN  /\ noteStacks' = [noteStacks EXCEPT
                                  ![n] = SubSeq(stack, 1, top - 1) \o
                                         SubSeq(stack, top + 1, Len(stack))]
              /\ IF InMap(vid)
                 THEN /\ voice' = [voice EXCEPT ![vid] = release(@, now)]
                      /\ timers' = timers \o releaseTimer(voice[vid], vid, now)
                 ELSE UNCHANGED <<voice, timers>>
     ELSE noteOffNoStack(n)
  /\ UNCHANGED <<now, mono, glideMs, voices, pressedNotes, voiceCounter,
                 monoVoiceId, fxVars, appVars>>

noteOff(n) ==
  \/ noteOffMono(n) /\ UNCHANGED keysDown
  \/ noteOffPoly(n) /\ UNCHANGED keysDown

\* setMono(enabled)
setMono(enabled) ==
  /\ mono' = enabled
  /\ IF ~enabled /\ monoVoiceId # NoId
     THEN /\ IF InMap(monoVoiceId)
             THEN /\ voice' = [voice EXCEPT ![monoVoiceId] = release(@, now)]
                  /\ timers' = timers \o
                       releaseTimer(voice[monoVoiceId], monoVoiceId, now)
             ELSE UNCHANGED <<voice, timers>>
          /\ voices' = mapDelete(voices, monoVoiceId)
          /\ monoVoiceId' = NoId
     ELSE UNCHANGED <<voice, timers, voices, monoVoiceId>>
  /\ UNCHANGED <<now, glideMs, noteStacks, pressedNotes, voiceCounter, fxVars,
                 appVars, keysDown>>

\* setGlide(ms)
setGlide(ms) ==
  /\ glideMs' = Max(0, orElse(parseFloat(ms), 0))
  /\ UNCHANGED <<now, mono, voices, voice, noteStacks, pressedNotes,
                 voiceCounter, monoVoiceId, timers, fxVars, appVars, keysDown>>

noteVars == <<now, mono, glideMs, voices, voice, noteStacks, pressedNotes,
              voiceCounter, monoVoiceId, timers>>

\* slip: the voices that already sound are not visited
forEachVoice_None(fn) == voice

\* _forEachVoice(fn): the voices of the map become what fn makes of them,
\* fn given as the function from voice id to the voice after the call
forEachVoice(fn) ==
  [id \in DOMAIN voice |-> IF InMap(id) THEN fn[id] ELSE voice[id]]

\* setOscCount(n)
setOscCount(n) ==
  LET v == Max(1, Min(3, orElse(parseInt(n), 1)))
  IN  /\ params' = [params EXCEPT !.oscCount = v]
      /\ voice' = forEachVoice([id \in DOMAIN voice |->
                                  Voice_setOscCount(voice[id], v, now)])
      /\ UNCHANGED <<now, mono, glideMs, voices, noteStacks, pressedNotes,
                     voiceCounter, monoVoiceId, timers, fx, appVars, keysDown>>

\* setWaveform(type); "" stands for every falsy argument
setWaveform(type) ==
  LET w == IF type = "" THEN "sine" ELSE type
  IN  /\ params' = [params EXCEPT !.waveform = w]
      /\ voice' = forEachVoice([id \in DOMAIN voice |->
                                  Voice_setWaveform(voice[id], w)])
      /\ UNCHANGED <<now, mono, glideMs, voices, noteStacks, pressedNotes,
                     voiceCounter, monoVoiceId, timers, fx, appVars, keysDown>>

\* setMasterGain(g)
setMasterGain(g) ==
  LET val == clamp(orElse(parseFloat(g), 0), 0, 100)
  IN  /\ params' = [params EXCEPT !.masterGain = val]
      /\ fx' = [fx EXCEPT !.masterGain = val]
      /\ UNCHANGED <<noteVars, appVars, keysDown>>

\* setDistortionDrive(d)
setDistortionDrive(d) ==
  LET val == clamp(orElse(parseFloat(d), 0), 0, 100)
  IN  /\ params' = [params EXCEPT !.drive = val]
      /\ voice' = forEachVoice([id \in DOMAIN voice |->
                                  Voice_setDrive(voice[id], val)])
      /\ UNCHANGED <<now, mono, glideMs, voices, noteStacks, pressedNotes,
                     voiceCounter, monoVoiceId, timers, fx, appVars, keysDown>>

\* setDelayMix(mix)
setDelayMix(mix) ==
  LET v == clamp(orElse(parseFloat(mix), 0), 0, 100)
  IN  /\ params' = [params EXCEPT !.delayMix = v]
      /\ fx' = [fx EXCEPT !.delayMix = v]
      /\ UNCHANGED <<noteVars, appVars, keysDown>>

\* setDelayTime(ms)
setDelayTime(ms) ==
  LET v == clamp(orElse(parseFloat(ms), 0), 100, 200000)
  IN  /\ params' = [params EXCEPT !.delayTimeMs = v]
      /\ fx' = [fx EXCEPT !.delayTime = v]
      /\ UNCHANGED <<noteVars, appVars, keysDown>>

\* slip: the feedback is clamped like a mix, to 0..1
setDelayFeedback_UpToOne(fb) ==
  LET v == clamp(orElse(parseFloat(fb), 0), 0, 100)
  IN  /\ params' = [params EXCEPT !.delayFeedback = v]
      /\ fx' = [fx EXCEPT !.delayFeedback = v]
      /\ UNCHANGED <<noteVars, appVars, keysDown>>

\* setDelayFeedback(fb)
setDelayFeedback(fb) ==
  LET v == clamp(orElse(parseFloat(fb), 0), 0, 95)
  IN  /\ params' = [params EXCEPT !.delayFeedback = v]
      /\ fx' = [fx EXCEPT !.delayFeedback = v]
      /\ UNCHANGED <<noteVars, appVars, keysDown>>

\* setReverbMix(mix)
setReverbMix(mix) ==
  LET v == clamp(orElse(parseFloat(mix), 0), 0, 100)
  IN  /\ params' = [params EXCEPT !.reverbMix = v]
      /\ fx' = [fx EXCEPT !.reverbMix = v]
      /\ UNCHANGED <<noteVars, appVars, keysDown>>

\* _applyReverbParams(): the impulse is rebuilt and the mix set again
applyReverbParams(p) ==
  LET mix == clamp(orElse(parseFloat(Num(p.reverbMix)), 0), 0, 100)
  IN  /\ params' = [p EXCEPT !.reverbMix = mix]
      /\ fx' = [fx EXCEPT
                  !.impulseLen = buildImpulse(p.reverbDecaySec,
                                              p.reverbPreDelayMs),
                  !.reverbMix = mix]

\* setReverbDecay(sec)
setReverbDecay(sec) ==
  LET v == clamp(orElse(parseFloat(sec), 0), 10, 1200)
  IN  /\ applyReverbParams([params EXCEPT !.reverbDecaySec = v])
      /\ UNCHANGED <<noteVars, appVars, keysDown>>

\* setReverbPreDelay(ms)
setReverbPreDelay(ms) ==
  LET v == clamp(orElse(parseFloat(ms), 0), 0, 20000)
  IN  /\ applyReverbParams([params EXCEPT !.reverbPreDelayMs = v])
      /\ UNCHANGED <<noteVars, appVars, keysDown>>

\* slip: the id of an ended mono voice is kept
onEndedMono_Kept(mid, id) == mid

\* if (this.monoVoiceId === id) this.monoVoiceId = null
onEndedMono(mid, id) == IF mid = id THEN NoId ELSE mid

\* slip: the stacks that become empty keep their key
onEndedStacks_KeepEmpty(id) ==
  [k \in DOMAIN noteStacks |-> spliceOut(noteStacks[k], id)]

\* voice.onEnded of the voice `id`, as installed by _createVoice
onEndedStacks(id) ==
  LET spliced == [k \in DOMAIN noteStacks |-> spliceOut(noteStacks[k], id)]
      keep    == {k \in DOMAIN noteStacks : Len(spliced[k]) > 0}
  IN  [k \in keep |-> spliced[k]]

\* The setTimeout callback of Voice.release fires: onEnded runs.  Timers
\* carry the same delay, so they fire in the order they were registered.
voiceEnded ==
  /\ timers # <<>>
  /\ Head(timers).due <= now
  /\ LET id == Head(timers).id
     IN  /\ voices' = mapDelete(voices, id)
         /\ noteStacks' = onEndedStacks(id)
         /\ monoVoiceId' = onEndedMono(monoVoiceId, id)
         /\ voice' = Drop(voice, id)
  /\ timers' = Tail(timers)
  /\ UNCHANGED <<now, mono, glideMs, pressedNotes, voiceCounter, fxVars,
                 appVars, keysDown>>

\* the audio clock advances to the later instant t
Tick(t) ==
  /\ t > now
  /\ now' = t
  /\ UNCHANGED <<mono, glideMs, voices, voice, noteStacks, pressedNotes,
                 voiceCounter, monoVoiceId, timers, fxVars, appVars, keysDown>>

\* a noteOn in this state calls _createVoice
Creates == ~mono \/ monoVoiceId = NoId

Next ==
  \/ \E n \in Notes, v \in Velocities :
       (Creates => voiceCounter < MaxVoiceCounter) /\ noteOn(n, v)
  \/ \E n \in Notes : noteOff(n)
  \/ \E b \in BOOLEAN : setMono(b)
  \/ voiceEnded
  \/ \E t \in TimeGrid : t <= MaxTime /\ Tick(t)

Spec == Init /\ [][Next]_vars

NextEnv ==
  \/ \E n \in Notes, v \in EnvVelocities :
       (Creates => voiceCounter < EnvMaxVoiceCounter) /\ noteOn(n, v)
  \/ \E n \in Notes : noteOff(n)
  \/ \E b \in BOOLEAN : setMono(b)
  \/ \E ms \in GlideInputs : setGlide(ms)
  \/ voiceEnded
  \/ \E t \in EnvTimeGrid : t <= MaxTime /\ Tick(t)

SpecEnv == Init /\ [][NextEnv]_vars

\* the parameter setters alone, called with anything
NextFx ==
  \/ \E x \in OscInputs : setOscCount(x)
  \/ \E w \in WaveInputs : setWaveform(w)
  \/ \E x \in FxGlideInputs : setGlide(x)
  \/ \E x \in FxInputs : setMasterGain(x)
  \/ \E x \in FxInputs : setDistortionDrive(x)
  \/ \E x \in FxInputs : setDelayMix(x)
  \/ \E x \in FxInputs : setDelayTime(x)
  \/ \E x \in FeedbackInputs : setDelayFeedback(x)
  \/ \E x \in FxInputs : setReverbMix(x)
  \/ \E x \in FxInputs : setReverbDecay(x)
  \/ \E x \in FxInputs : setReverbPreDelay(x)

SpecFx == Init /\ [][NextFx]_vars

\* notes played while the sound of the voices is changed
NextLive ==
  \/ \E n \in LiveNotes, v \in Velocities :
       (Creates => voiceCounter < LiveMaxVoiceCounter) /\ noteOn(n, v)
  \/ \E n \in LiveNotes : noteOff(n)
  \/ \E b \in BOOLEAN : setMono(b)
  \/ \E x \in LiveOscInputs : setOscCount(x)
  \/ \E w \in WaveInputs : setWaveform(w)
  \/ \E x \in LiveDriveInputs : setDistortionDrive(x)
  \/ voiceEnded
  \/ \E t \in TimeGrid : t <= MaxTime /\ Tick(t)

SpecLive == Init /\ [][NextLive]_vars

\* Spec with the scheduling the browser provides: a timer callback that is
\* due runs, and the audio clock reaches every instant
SpecFair ==
  Init /\ [][Next]_vars /\ WF_vars(voiceEnded) /\ WF_vars(Tick(MaxTime))

\* a key that is up goes down: the player calls noteOn for it
keyDown(n, velocity) ==
  /\ n \notin keysDown
  /\ keysDown' = keysDown \cup {n}
  /\ noteOnMono(n, velocity) \/ noteOnPoly(n, velocity)

\* a key that is down goes up: the player calls noteOff for it
keyUp(n) ==
  /\ n \in keysDown
  /\ keysDown' = keysDown \ {n}
  /\ \/ noteOffMono(n)
     \/ noteOffPoly(n)

\* the engine played from a keyboard: every noteOn is a key going down and
\* is followed by the noteOff of that key before the next noteOn of it
NextKeys ==
  \/ \E n \in Notes, v \in Velocities :
       (Creates => voiceCounter < KeysMaxVoiceCounter) /\ keyDown(n, v)
  \/ \E n \in Notes : keyUp(n)
  \/ \E b \in BOOLEAN : setMono(b)
  \/ voiceEnded
  \/ \E t \in TimeGrid : t <= MaxTime /\ Tick(t)

SpecKeys == Init /\ [][NextKeys]_vars

----------------------------------------------------------------------------
(* main.js, ES-module variant: one Synth object per note, started on        *)
(* note-on and stopped on note-off; Start / Stop buttons resume and suspend *)
(* the audio context                                                        *)

\* slip: only the missing context is tested, not its state
guardIfSuspended_NullOnly == ctxState = "null"

\* function guardIfSuspended() { return !ctx || ctx.state !== "running"; }
guardIfSuspended == ctxState = "null" \/ ctxState # "running"

\* slip: the voice is dropped without being stopped
stopSynth_Forgotten(ss, id) == ss

\* v.stop(ctx.currentTime) on the Synth object `id`
stopSynth(ss, id) == [ss EXCEPT ![id].stopped = TRUE]

\* synth.start(note, velocity, ctx.currentTime) on a new Synth object
startedSynth(note, velocity) ==
  [note |-> note, velocity |-> velocity, stopped |-> FALSE]

\* midi.onNoteOn = (note, velocity) => ...
midiOnNoteOn(note, velocity) ==
  /\ midiInitialized
  /\ IF guardIfSuspended
     THEN UNCHANGED <<mainVoices, synths>>
     ELSE IF velocity = 0
          THEN IF note \in DOMAIN mainVoices
               THEN /\ synths' = stopSynth(synths, mainVoices[note])
                    /\ mainVoices' = Drop(mainVoices, note)
               ELSE UNCHANGED <<mainVoices, synths>>
          ELSE LET synths1 == IF note \in DOMAIN mainVoices
                              THEN stopSynth(synths, mainVoices[note])
                              ELSE synths
               IN  /\ synths' = Append(synths1, startedSynth(note, velocity))
                   /\ mainVoices' = Put(mainVoices, note, Len(synths) + 1)
  /\ UNCHANGED <<ctxState, midiInitialized, pending, startDisabled,
                 stopDisabled, outsideMain>>

\* midi.onNoteOff = (note) => ...
midiOnNoteOff(note) ==
  /\ midiInitialized
  /\ IF ~guardIfSuspended /\ note \in DOMAIN mainVoices
     THEN /\ synths' = stopSynth(synths, mainVoices[note])
          /\ mainVoices' = Drop(mainVoices, note)
     ELSE UNCHANGED <<mainVoices, synths>>
  /\ UNCHANGED <<ctxState, midiInitialized, pending, startDisabled,
                 stopDisabled, outsideMain>>

\* function stopAllVoices(): the Synth objects afterwards
stopAllVoices(ss, mv) ==
  [i \in DOMAIN ss |->
     IF \E n \in DOMAIN mv : mv[n] = i THEN [ss[i] EXCEPT !.stopped = TRUE]
                                       ELSE ss[i]]

\* the Start handler after `await ctx.resume()`: buttons, then the MIDIengine
\* is set up once; its constructor may throw, which leaves midiInitialized
\* false
startContinue ==
  /\ startDisabled' = TRUE
  /\ stopDisabled' = FALSE
  /\ \E ok \in BOOLEAN : midiInitialized' = (midiInitialized \/ ok)

\* startBtn click, up to `await ctx.resume()`.  A context created in the
\* handler starts out suspended or already running.
startClick ==
  /\ ~startDisabled
  /\ \E st \in (IF ctxState = "null" THEN {"suspended", "running"}
                                     ELSE {ctxState}) :
       /\ ctxState' = st
       /\ IF st = "suspended"
          THEN /\ pending' = Append(pending, "start")
               /\ UNCHANGED <<startDisabled, stopDisabled, midiInitialized>>
          ELSE /\ startContinue
               /\ UNCHANGED pending
  /\ UNCHANGED <<mainVoices, synths, outsideMain>>

\* stopBtn click, up to `await ctx.suspend()`
stopClick ==
  /\ ~stopDisabled
  /\ IF ctxState = "running"
     THEN /\ synths' = stopAllVoices(synths, mainVoices)
          /\ mainVoices' = <<>>
          /\ pending' = Append(pending, "stop")
     ELSE UNCHANGED <<synths, mainVoices, pending>>
  /\ UNCHANGED <<ctxState, midiInitialized, startDisabled, stopDisabled,
                 outsideMain>>

\* the oldest pending ctx.resume() / ctx.suspend() completes: the context
\* changes state and the handler that awaited it runs to its end
asyncDone ==
  /\ pending # <<>>
  /\ IF Head(pending) = "start"
     THEN /\ ctxState' = "running"
          /\ startContinue
     ELSE /\ ctxState' = "suspended"
          /\ stopDisabled' = TRUE
          /\ startDisabled' = FALSE
          /\ UNCHANGED midiInitialized
  /\ pending' = Tail(pending)
  /\ UNCHANGED <<mainVoices, synths, outsideMain>>

NextMain ==
  \/ Len(pending) < MaxPending /\ startClick
  \/ Len(pending) < MaxPending /\ stopClick
  \/ asyncDone
  \/ \E n \in Notes, v \in MainVelocities :
       Len(synths) < MaxSynths /\ midiOnNoteOn(n, v)
  \/ \E n \in Notes : midiOnNoteOff(n)

SpecMain == Init /\ [][NextMain]_vars

----------------------------------------------------------------------------
(* main.js, classic-script variant: a Map from note to an array of          *)
(* WebInstrument.Synth objects, with an optional mono mode that reuses the  *)
(* last voice                                                               *)

\* voices.get(note): the array stored for the note, <<>> for undefined
classicGet(cv, note) ==
  LET hit == SelectSeq(cv, LAMBDA e : e.note = note)
  IN  IF hit = <<>> THEN <<>> ELSE hit[1].stack

\* voices.has(note)
classicHas(cv, note) == \E i \in 1..Len(cv) : cv[i].note = note

\* voices.set(note, stack): a key already there keeps its place
classicSet(cv, note, stack) ==
  IF classicHas(cv, note)
  THEN [i \in 1..Len(cv) |-> IF cv[i].note = note
                             THEN [note |-> note, stack |-> stack]
                             ELSE cv[i]]
  ELSE Append(cv, [note |-> note, stack |-> stack])

\* voices.delete(note)
classicDelete(cv, note) == SelectSeq(cv, LAMBDA e : e.note # note)

\* function pushNoteVoice(note, voice)
pushNoteVoice(cv, note, v) ==
  classicSet(cv, note, Append(classicGet(cv, note), v))

\* Array.from(voices.values()).pop()?.slice(-1)[0], NoId for undefined
classicLast(cv) ==
  IF cv = <<>> \/ cv[Len(cv)].stack = <<>> THEN NoId
  ELSE cv[Len(cv)].stack[Len(cv[Len(cv)].stack)]

\* noteOnMono: the glide and the envelope nudge applied to the last voice
classicGlide(s, note, velocity, glide, t) ==
  LET p0 == setValueAtTime(cancelScheduledValues(s.oscFreq, t),
                           ParamValue(s.oscFreq, DefaultOscHz, t), t)
      g0 == setValueAtTime(cancelScheduledValues(s.ampGain, t),
                           Max(GainFloor, ParamValue(s.ampGain, 0, t)), t)
  IN  [s EXCEPT
         !.oscFreq = linearRampToValueAtTime(p0, mtof(note), t + glide),
         !.ampGain = linearRampToValueAtTime(g0,
                       Min(GainOne, Max(GainOne \div 5, velocity)),
                       t + WI_Attack)]

\* a new WebInstrument.Synth is created, started and pushed for the note
classicNewVoice(note, velocity) ==
  /\ classicSynths' = Append(classicSynths,
                             WI_start(WI_Synth, note, velocity, now))
  /\ classicVoices' = pushNoteVoice(classicVoices, note,
                                    Len(classicSynths) + 1)

\* function noteOnMono(note, velocity); glide is ui.glide.value
classic_noteOnMono(note, velocity, glide) ==
  LET last == classicLast(classicVoices)
  IN  IF last # NoId
      THEN /\ classicSynths' = [classicSynths EXCEPT ![last] =
                 classicGlide(@, note, velocity, glide, now)]
           /\ classicVoices' = pushNoteVoice(classicVoices, note, last)
      ELSE classicNewVoice(note, velocity)

\* function noteOffMono(note)
classic_noteOffMono(note) ==
  LET arr == classicGet(classicVoices, note)
  IN  IF arr = <<>> THEN UNCHANGED <<classicSynths, classicVoices>>
      ELSE /\ classicSynths' = [classicSynths EXCEPT ![arr[Len(arr)]] =
                                  WI_stop(@, now)]
           /\ classicVoices' = classicDelete(classicVoices, note)

\* function noteOnPoly(note, velocity)
classic_noteOnPoly(note, velocity) == classicNewVoice(note, velocity)

\* function noteOffPoly(note)
classic_noteOffPoly(note) ==
  LET stack == classicGet(classicVoices, note)
  IN  IF stack = <<>> THEN UNCHANGED <<classicSynths, classicVoices>>
      ELSE /\ classicSynths' = [classicSynths EXCEPT ![stack[Len(stack)]] =
                                  WI_stop(@, now)]
           /\ classicVoices' =
                IF Len(stack) = 1
                THEN classicDelete(classicVoices, note)
                ELSE classicSet(classicVoices, note,
                                SubSeq(stack, 1, Len(stack) - 1))

\* what the classic main.js does not touch
outsideClassic == <<engineVars, mainVars, keysDown, synthVoice, polyVars>>

\* ui.startBtn click: the AudioContext is created
classicStart ==
  /\ ~classicCtx
  /\ classicCtx' = TRUE
  /\ UNCHANGED <<monoEnabled, classicVoices, classicSynths, outsideClassic>>

\* ui.mono change
classicSetMono(checked) ==
  /\ monoEnabled' = checked
  /\ UNCHANGED <<classicCtx, classicVoices, classicSynths, outsideClassic>>

\* midi.onNoteOn = function(noteOrObj, velocityMaybe)
classicOnNoteOn(note, velocity, glide) ==
  /\ IF ~classicCtx THEN UNCHANGED <<classicSynths, classicVoices>>
     ELSE IF monoEnabled THEN classic_noteOnMono(note, velocity, glide)
          ELSE classic_noteOnPoly(note, velocity)
  /\ UNCHANGED <<classicCtx, monoEnabled, outsideClassic>>

\* midi.onNoteOff = function(noteOrObj)
classicOnNoteOff(note) ==
  /\ IF ~classicCtx THEN UNCHANGED <<classicSynths, classicVoices>>
     ELSE IF monoEnabled THEN classic_noteOffMono(note)
          ELSE classic_noteOffPoly(note)
  /\ UNCHANGED <<classicCtx, monoEnabled, outsideClassic>>

\* a note-on in this state creates a Synth object
ClassicCreates ==
  classicCtx /\ (~monoEnabled \/ classicLast(classicVoices) = NoId)

\* the number of voices stored in the Map, over all notes
RECURSIVE ClassicHeld(_)
ClassicHeld(cv) ==
  IF cv = <<>> THEN 0 ELSE Len(Head(cv).stack) + ClassicHeld(Tail(cv))

NextClassic ==
  \/ classicStart
  \/ \E b \in BOOLEAN : classicSetMono(b)
  \/ \E n \in Notes, v \in ClassicVelocities, g \in ClassicGlides :
       /\ ClassicCreates => Len(classicSynths) < MaxClassicSynths
       /\ ClassicHeld(classicVoices) < MaxClassicHeld
       /\ classicOnNoteOn(n, v, g)
  \/ \E n \in Notes : classicOnNoteOff(n)
  \/ \E t \in TimeGrid : t <= MaxTime /\ Tick(t)

SpecClassic == Init /\ [][NextClassic]_vars

----------------------------------------------------------------------------
(* synth.js, classic-script variant: one SynthVoice driven by its methods   *)

\* what a SynthVoice does not touch
outsideSynthVoice ==
  <<engineVars, mainVars, classicVars, keysDown, polyVars>>

\* voice.start(freq, velocity)
svStart(freq, velocity) ==
  /\ synthVoice' = SV_start(synthVoice, freq, velocity, now)
  /\ UNCHANGED outsideSynthVoice

\* voice.retrigger(freq, velocity)
svRetrigger(freq, velocity) ==
  /\ synthVoice' = SV_retrigger(synthVoice, freq, velocity, now)
  /\ UNCHANGED outsideSynthVoice

\* voice.stop()
svStop ==
  /\ synthVoice' = SV_stop(synthVoice, now)
  /\ UNCHANGED outsideSynthVoice

NextVoice ==
  \/ \E n \in Notes, v \in VoiceVelocities : svStart(mtof(n), v)
  \/ \E n \in Notes, v \in VoiceVelocities : svRetrigger(mtof(n), v)
  \/ svStop
  \/ \E t \in EnvTimeGrid : t <= MaxTime /\ Tick(t)

SpecVoice == Init /\ [][NextVoice]_vars

----------------------------------------------------------------------------
(* class PolySynth driven by its methods                                    *)

\* what PolySynth does not touch
outsidePoly == <<engineVars, mainVars, classicVars, synthVoice, keysDown>>

\* PolySynth.setGlideMs(ms)
polySetGlideMs(ms) ==
  /\ polyGlideMs' = ms
  /\ UNCHANGED <<active, lastFreq, polyVoices, outsidePoly>>

\* PolySynth.noteOn(note, freq, velocity), freq = mtof(note)
polyNoteOn(note, velocity) ==
  LET freq       == mtof(note)
      arr        == IF note \in DOMAIN active THEN active[note] ELSE <<>>
      legatoFrom == IF anyHeld(active) THEN lastFreq ELSE NullFreq
      v          == PV_trigger(PV_new(polyGlideMs), freq, velocity,
                               legatoFrom, now)
  IN  /\ polyVoices' = Append(polyVoices, v)
      /\ active' = Put(active, note, Append(arr, Len(polyVoices) + 1))
      /\ lastFreq' = freq
      /\ UNCHANGED <<polyGlideMs, outsidePoly>>

\* PolySynth.noteOff(note)
polyNoteOff(note) ==
  /\ IF note \notin DOMAIN active \/ active[note] = <<>>
     THEN UNCHANGED <<active, lastFreq, polyVoices>>
     ELSE LET arr     == active[note]
              v       == arr[Len(arr)]
              rest    == SubSeq(arr, 1, Len(arr) - 1)
              active1 == IF rest = <<>> THEN Drop(active, note)
                         ELSE [active EXCEPT ![note] = rest]
          IN  /\ polyVoices' = [polyVoices EXCEPT ![v] = PV_release(@, now)]
              /\ active' = active1
              /\ lastFreq' = IF ~anyHeld(active1) THEN NullFreq ELSE lastFreq
  /\ UNCHANGED <<polyGlideMs, outsidePoly>>

\* the timer of a release fires: the oscillator of the voice is stopped
polyOscStop(v) ==
  /\ polyVoices[v].released
  /\ ~polyVoices[v].oscStopped
  /\ polyVoices[v].stopDue <= now
  /\ polyVoices' = [polyVoices EXCEPT ![v].oscStopped = TRUE]
  /\ UNCHANGED <<active, lastFreq, polyGlideMs, outsidePoly>>

NextPoly ==
  \/ \E ms \in PolyGlides : polySetGlideMs(ms)
  \/ \E n \in Notes, v \in PolyVelocities :
       Len(polyVoices) < MaxPolyVoices /\ polyNoteOn(n, v)
  \/ \E n \in Notes : polyNoteOff(n)
  \/ \E v \in 1..Len(polyVoices) : polyOscStop(v)
  \/ \E t \in TimeGrid : t <= MaxTime /\ Tick(t)

SpecPoly == Init /\ [][NextPoly]_vars

----------------------------------------------------------------------------
(* Properties of the voice manager *)

Ids(seq) == {seq[i] : i \in 1..Len(seq)}
MinOf(S) == CHOOSE x \in S : \A y \in S : x <= y
MaxOf(S) == CHOOSE x \in S : \A y \in S : x >= y
StackOf(n) == IF n \in DOMAIN noteStacks THEN noteStacks[n] ELSE <<>>
Without(seq, id) == SelectSeq(seq, LAMBDA x : x # id)
TimerIds == {timers[i].id : i \in 1..Len(timers)}

\* C1: while the engine is in polyphonic mode, the voices map never holds
\* more than params.maxVoices entries once an operation has completed.
C1_PolyCap == ~mono => Len(voices) <= maxVoices

\* a poly noteOn has just stolen: the map is full and a stolen voice is still
\* sounding its release tail outside the map
C1_Witness ==
  /\ ~mono
  /\ pressedNotes = {}
  /\ voiceCounter > maxVoices
  /\ Len(voices) = maxVoices
  /\ \E id \in DOMAIN voice : id \notin Ids(voices) /\ id \in TimerIds

\* C2: a poly noteOn that exceeds maxVoices steals exactly one voice, the one
\* with the lowest id in the map: it is released, leaves the map and every
\* note stack; every other voice keeps its state and its stack position.
C2_StealOldest ==
  [][\A n \in Notes, v \in Velocities :
       (noteOnPoly(n, v) /\ Len(voices) + 1 > maxVoices) =>
         LET new == voiceCounter + 1
             old == MinOf(Ids(voices) \cup {new})
         IN  /\ old # new
             /\ voice'[old].stopped
             /\ old \in TimerIds'
             /\ voices' = Append(Without(voices, old), new)
             /\ \A k \in DOMAIN noteStacks' : old \notin Ids(noteStacks'[k])
             /\ \A id \in Ids(voices) \ {old} : voice'[id] = voice[id]
             /\ ~voice'[new].stopped
             /\ \A k \in DOMAIN noteStacks \cup {n} :
                  noteStacks'[k] =
                    IF k = n THEN Append(Without(StackOf(k), old), new)
                             ELSE Without(StackOf(k), old)]_vars

\* the voice of the first note is in Release outside the map, the two later
\* voices are unreleased on their stacks
C2_Witness ==
  /\ ~mono
  /\ voiceCounter = maxVoices + 1
  /\ voices = <<2, 3>>
  /\ 1 \in DOMAIN voice /\ voice[1].stopped /\ voice[1].stopAt = now + 300
  /\ ~voice[2].stopped /\ ~voice[3].stopped
  /\ \A id \in {2, 3} : \E k \in DOMAIN noteStacks : id \in Ids(noteStacks[k])
  /\ \A k \in DOMAIN noteStacks : 1 \notin Ids(noteStacks[k])

\* C3: a poly noteOff(n) releases the most recently created voice on
\* noteStacks[n] and pops it; the older voices of the stack stay on it,
\* unreleased.
C3_LifoRelease ==
  [][\A n \in Notes :
       (noteOffPoly(n) /\ Len(StackOf(n)) > 0) =>
         LET stack == noteStacks[n]
             top   == MaxOf(Ids(stack))
         IN  /\ top = stack[Len(stack)]
             /\ voice'[top].stopped
             /\ top \in TimerIds'
             /\ noteStacks'[n] = SubSeq(stack, 1, Len(stack) - 1)
             /\ \A i \in 1..(Len(stack) - 1) :
                  /\ voice'[stack[i]] = voice[stack[i]]
                  /\ ~voice'[stack[i]].stopped]_vars

\* noteOn(n), noteOn(n), noteOff(n): the second voice is in Release, the
\* first one is alone on the stack and unreleased
C3_Witness ==
  /\ ~mono
  /\ \E n \in DOMAIN noteStacks :
       /\ noteStacks[n] = <<1>>
       /\ voices = <<1, 2>>
       /\ ~voice[1].stopped
       /\ voice[2].stopped
       /\ voice[2].freq = mtof(n) /\ voice[1].freq = mtof(n)

\* C4: no key of noteStacks maps to an empty stack once noteOn or noteOff
\* has returned.
C4_NoEmptyStack == \A k \in DOMAIN noteStacks : Len(noteStacks[k]) > 0

\* C5: in either mode the voices map never holds more than params.maxVoices
\* entries once an operation has completed.
C5_GlobalCap == Len(voices) <= maxVoices

\* C6 as claimed: every note stack stays within a per-note cap smaller than
\* the global cap.
MAX_VOICES_PER_NOTE == maxVoices - 1
C7_MonoSingleVoice == mono => Len(voices) <= 1

\* C8: a mono noteOff(n) removes n from pressedNotes; the mono voice goes
\* into Release when no note is held afterwards and is left untouched, with
\* no timer registered, while a note is still held.
C8_MonoReleaseWhenNoneHeld ==
  [][\A n \in Notes :
       (noteOffMono(n) /\ monoVoiceId # NoId /\ InMap(monoVoiceId)) =>
         LET m == monoVoiceId
         IN  /\ pressedNotes' = pressedNotes \ {n}
             /\ pressedNotes' = {} =>
                  /\ voice'[m].stopped
                  /\ m \in TimerIds'
                  /\ ~voice[m].stopped => voice'[m].stopAt = now + 300
             /\ pressedNotes' # {} =>
                  /\ voice'[m] = voice[m]
                  /\ timers' = timers]_vars

\* the last held key went up and the mono voice is in its release tail
C8_Witness ==
  /\ mono
  /\ monoVoiceId # NoId
  /\ InMap(monoVoiceId)
  /\ pressedNotes = {}
  /\ voice[monoVoiceId].stopped
  /\ monoVoiceId \in TimerIds

\* a key went up while another one is held: the mono voice still sounds
C8_WitnessHeld ==
  /\ mono
  /\ monoVoiceId # NoId
  /\ InMap(monoVoiceId)
  /\ Cardinality(pressedNotes) = 1
  /\ ~voice[monoVoiceId].stopped
  /\ \E n \in pressedNotes : voice[monoVoiceId].freq # mtof(n)

\* instants at which a glide started now is sampled: its start, its middle,
\* just before and at its end, and the later instants of the clock
GlideSamples ==
  {now, now + 1, now + glideMs \div 2, now + glideMs - 1, now + glideMs,
   now + glideMs + 1, MaxTime + glideMs} \cap (now..(MaxTime + glideMs))

Triggered(id) ==
  \/ id \notin DOMAIN voice
  \/ mono /\ id = monoVoiceId /\ InMap(id)

\* C10: trigger(vel) starts the attack ramp at the gain the voice has at that
\* instant (0 for a new voice), with nothing else left scheduled, so the gain
\* of the voice does not jump.
C10_TriggerFromCurrentGain ==
  [][\A n \in Notes, v \in EnvVelocities :
       noteOn(n, v) =>
         \A id \in DOMAIN voice' :
           Triggered(id) =>
             LET g    == IF id \in DOMAIN voice
                         THEN ampGainValue(voice[id], now) ELSE 0
                 peak == Max(GainFloor, clamp(v * 10000, 0, GainOne))
                 a    == voice'[id].ampGain
             IN  /\ Len(a) = 3
                 /\ a[1] = SetEv(g, now)
                 /\ a[2] = RampEv(peak, now + EnvAttack)
                 /\ a[3].kind = "ramp" /\ a[3].t = now + EnvAttack + EnvDecay
                 /\ ampGainValue(voice'[id], now) = g]_vars

\* a sounding voice was retriggered: its attack ramp starts above zero
C10_Witness ==
  \E id \in DOMAIN voice :
    /\ Len(voice[id].ampGain) = 3
    /\ voice[id].ampGain[1].v > GainFloor
    /\ voice[id].ampGain[1].t > 0

\* the voice v with id `id` is in its release tail: released, its gain on a
\* ramp from the value it had at the release towards the floor over
\* env.release, its oscillators due to stop after that ramp, and its onEnded
\* timer pending for no earlier than the stop
InReleaseTail(v, id, tms) ==
  /\ v.stopped
  /\ Len(v.ampGain) = 2
  /\ v.ampGain[1].kind = "set"
  /\ v.ampGain[2] = RampEv(GainFloor, v.ampGain[1].t + EnvRelease)
  /\ v.stopAt >= v.ampGain[1].t + EnvRelease
  /\ \E i \in 1..Len(tms) : tms[i].id = id /\ tms[i].due >= v.stopAt

\* C11: a voice stolen by noteOn or force-released by setMono(false) is in
\* its release tail when the call returns (gain ramping down over
\* env.release, oscillators stopping only after it), and onEnded of a voice
\* never runs before the stop time of its oscillators.
C11_ReleaseNotTeardown ==
  [][/\ \A n \in Notes, v \in Velocities :
          (noteOnPoly(n, v) /\ Len(voices) + 1 > maxVoices) =>
            LET old == oldestKey(Append(voices, voiceCounter + 1))
            IN  InReleaseTail(voice'[old], old, timers')
     /\ (setMono(FALSE) /\ monoVoiceId # NoId /\ InMap(monoVoiceId)) =>
          InReleaseTail(voice'[monoVoiceId], monoVoiceId, timers')
     /\ voiceEnded => now >= voice[Head(timers).id].stopAt]_vars

\* C12: the envelope of a voice never goes back from Release: once release()
\* has been applied to a voice it stays released and no later event rewrites
\* its gain timeline (trigger() is never applied to it again).
C12_NoTriggerAfterRelease ==
  [][\A id \in DOMAIN voice \cap DOMAIN voice' :
       voice[id].stopped =>
         /\ voice'[id].stopped
         /\ voice'[id].ampGain = voice[id].ampGain]_vars

\* C13: a poly noteOn(n) creates exactly one voice, with the next id, and
\* pushes that id on top of noteStacks[n]; the voices already on the stack
\* keep their place and their state, except the one voice a steal selects.
C13_PolyNoteOnAdditive ==
  [][\A n \in Notes, v \in Velocities :
       noteOnPoly(n, v) =>
         LET new    == voiceCounter + 1
             stolen == IF Len(voices) + 1 > maxVoices THEN voices[1] ELSE NoId
         IN  /\ voiceCounter' = new
             /\ DOMAIN voice' = DOMAIN voice \cup {new}
             /\ new \notin DOMAIN voice
             /\ ~voice'[new].stopped
             /\ voice'[new].freq = mtof(n)
             /\ voices'[Len(voices')] = new
             /\ noteStacks'[n] = Append(Without(StackOf(n), stolen), new)
             /\ \A id \in Ids(StackOf(n)) \ {stolen} :
                  voice'[id] = voice[id]]_vars

\* the same note was struck twice: both voices sound, the later one on top
C13_Witness ==
  /\ ~mono
  /\ \E n \in DOMAIN noteStacks :
       /\ Len(noteStacks[n]) = 2
       /\ noteStacks[n][1] < noteStacks[n][2]
       /\ \A i \in 1..2 :
            /\ ~voice[noteStacks[n][i]].stopped
            /\ InMap(noteStacks[n][i])
            /\ voice[noteStacks[n][i]].freq = mtof(n)

\* C14: a poly noteOff(n) for a note with no stack entry, or with an empty
\* stack, is a no-op: voices, noteStacks, pressedNotes, voiceCounter,
\* monoVoiceId, every voice and every pending timer are unchanged.
C14_NoteOffNoStackNoOp ==
  [][\A n \in Notes :
       (noteOffPoly(n) /\ Len(StackOf(n)) = 0) =>
         /\ voices' = voices
         /\ noteStacks' = noteStacks
         /\ pressedNotes' = pressedNotes
         /\ voiceCounter' = voiceCounter
         /\ monoVoiceId' = monoVoiceId
         /\ voice' = voice
         /\ timers' = timers]_vars

\* poly mode with a voice in its release tail, one note without a stack
\* entry and one note whose stack a noteOff has emptied: both kinds of
\* noteOff can arrive
C14_Witness ==
  /\ ~mono
  /\ \E id \in Ids(voices) : voice[id].stopped /\ id \in TimerIds
  /\ \E n \in Notes : n \notin DOMAIN noteStacks
  /\ \E k \in DOMAIN noteStacks : noteStacks[k] = <<>>

\* C15: a note-on with velocity 0 is a note-off: the step creates no voice
\* and does to the engine what noteOff of that note does.
C15_VelocityZeroIsNoteOff ==
  [][\A n \in Notes :
       noteOn(n, 0) =>
         /\ voiceCounter' = voiceCounter
         /\ DOMAIN voice' = DOMAIN voice
         /\ noteOff(n)]_vars

\* C16: in the module main.js a note-on or note-off that arrives while the
\* audio context is missing or not running is dropped: the voices map and
\* every Synth object are left as they were.
C16_DroppedWhileNotRunning ==
  [][/\ \A n \in Notes, v \in MainVelocities :
          (midiOnNoteOn(n, v) /\ ctxState # "running") =>
            mainVoices' = mainVoices /\ synths' = synths
     /\ \A n \in Notes :
          (midiOnNoteOff(n) /\ ctxState # "running") =>
            mainVoices' = mainVoices /\ synths' = synths]_vars

\* the context is suspended with the MIDI callbacks attached while a voice
\* that was started during the suspend is still in the map: a note-on or a
\* note-off that arrives now finds something it could change
C16_Witness ==
  /\ midiInitialized
  /\ ctxState = "suspended"
  /\ pending = <<>>
  /\ \E n \in DOMAIN mainVoices : ~synths[mainVoices[n]].stopped

\* ids of the voices whose onEnded has run
Disposed == (1..voiceCounter) \ DOMAIN voice

\* C17: every released voice has its onEnded timer pending and, with timers
\* firing, is destroyed; once onEnded has run its id is in neither the voices
\* map nor a note stack nor monoVoiceId; and onEnded never runs before
\* env.release has elapsed since the release.
C17_ReleasedThenDestroyed ==
  /\ [](\A id \in DOMAIN voice : voice[id].stopped => id \in TimerIds)
  /\ [](\A id \in Disposed :
          /\ id \notin Ids(voices)
          /\ \A k \in DOMAIN noteStacks : id \notin Ids(noteStacks[k])
          /\ monoVoiceId # id)
  /\ [][voiceEnded =>
          LET id == Head(timers).id
          IN  /\ voice[id].stopped
              /\ now >= voice[id].stopAt - StopMargin
              /\ id \in Disposed']_vars
  /\ \A id \in 1..MaxVoiceCounter :
       (/\ id \in DOMAIN voice
        /\ voice[id].stopped
        /\ \E i \in 1..Len(timers) :
             timers[i].id = id /\ timers[i].due <= MaxTime)
         ~> (id \in Disposed)

\* a released voice has been destroyed while a later voice still sounds
C17_Witness ==
  /\ 1 \in Disposed
  /\ now >= EnvRelease + EndedMargin
  /\ \E id \in DOMAIN voice : ~voice[id].stopped /\ id \in Ids(voices)

\* C18: whatever the parameter setters are called with, the stored
\* parameters stay in range, and so do the values handed to the nodes of the
\* FX graph (a value out of range or not finite there is what would throw).
C18_ParamsInRange ==
  /\ params.masterGain \in 0..100
  /\ params.delayMix \in 0..100
  /\ params.reverbMix \in 0..100
  /\ params.drive \in 0..100
  /\ params.delayFeedback \in 0..95
  /\ params.delayTimeMs \in 100..200000
  /\ params.reverbDecaySec \in 10..1200
  /\ params.reverbPreDelayMs \in 0..20000
  /\ params.oscCount \in {1, 2, 3}
  /\ glideMs >= 0
  /\ fx.masterGain \in 0..100
  /\ fx.delayMix \in 0..100
  /\ fx.reverbMix \in 0..100
  /\ fx.delayFeedback \in 0..95
  /\ fx.delayTime \in 100..200000
  /\ fx.impulseLen > 0 /\ fx.impulseLen < Infinity

\* setters have been called with a negative number, with Infinity and with
\* something that is not a number: parameters sit at both ends of their range
C18_Witness ==
  /\ params.delayFeedback = 95
  /\ params.delayTimeMs = 100
  /\ params.reverbDecaySec = 1200
  /\ params.masterGain = 0
  /\ params.oscCount = 3
  /\ glideMs = Infinity
  /\ params # InitParams

\* delay -> delayFeedback -> delay: one pass through the loop scales the
\* level amp by the feedback gain fb (in 1/100)
Echo(amp, fb) == (amp * fb) \div 100

\* ten passes through the loop
Echo10(amp, fb) ==
  Echo(Echo(Echo(Echo(Echo(Echo(Echo(Echo(Echo(Echo(amp, fb), fb), fb), fb),
       fb), fb), fb), fb), fb), fb)

\* the number of echoes, counted in tens from k, after which an impulse of
\* level amp is below floor; more than MaxEchoes if that is not reached
RECURSIVE EchoesUntilBelow(_, _, _, _)
EchoesUntilBelow(amp, fb, floor, k) ==
  IF amp < floor \/ k > MaxEchoes THEN k
  ELSE EchoesUntilBelow(Echo10(amp, fb), fb, floor, k + 10)

\* C19: the feedback gain of the delay loop, as stored and as set on the
\* node, is strictly below 1 in every reachable state, and an impulse of full
\* level recirculating through the loop is below the 0.0001 floor after a
\* bounded number of echoes.
C19_FeedbackBelowOne ==
  /\ params.delayFeedback < 100
  /\ fx.delayFeedback < 100
  /\ fx.delayFeedback = params.delayFeedback
  /\ EchoesUntilBelow(GainOne, fx.delayFeedback, GainFloor, 0) <= MaxEchoes

\* setDelayFeedback was called with a value above its range: the loop gain
\* sits at its cap, where the decay is slowest
C19_Witness ==
  /\ fx.delayFeedback = 95
  /\ fx.delayFeedback # InitFx.delayFeedback
  /\ EchoesUntilBelow(GainOne, fx.delayFeedback, GainFloor, 0) > 100

\* C20: when setWaveform, setOscCount or setDistortionDrive returns, every
\* voice that has not been disposed (its onEnded has not run), also one in
\* its release tail, carries the new waveform / oscillator count / drive.
C20_LiveWriteReachesAllVoices ==
  [][/\ (\E w \in WaveInputs : setWaveform(w)) =>
          \A id \in DOMAIN voice' : voice'[id].waveform = params'.waveform
     /\ (\E x \in LiveOscInputs : setOscCount(x)) =>
          \A id \in DOMAIN voice' : voice'[id].oscCount = params'.oscCount
     /\ (\E x \in LiveDriveInputs : setDistortionDrive(x)) =>
          \A id \in DOMAIN voice' : voice'[id].drive = params'.drive]_vars

\* C21: when onEnded of a voice runs, the oscillators the voice has then
\* (the earlier ones were stopped when they were replaced) have a stop
\* scheduled by release() and that stop time has passed, however setOscCount
\* calls were interleaved with the release.
C21_NoOscillatorLeftRunning ==
  [][voiceEnded =>
       LET v == voice[Head(timers).id]
       IN  /\ v.oscStopAt >= 0
           /\ v.oscStopAt <= now]_vars

\* C22: whenever no onEnded timer is pending, no key of noteStacks maps to
\* an empty stack; and onEnded itself leaves no empty stack behind, whether
\* the stack was emptied by noteOff, by a steal or by onEnded.
C22_NoEmptyStackAtRest ==
  /\ [](timers = <<>> => \A k \in DOMAIN noteStacks : noteStacks[k] # <<>>)
  /\ [][voiceEnded =>
          \A k \in DOMAIN noteStacks' : noteStacks'[k] # <<>>]_vars

\* two voices of one note were released by noteOff, which left the key of
\* the note with an empty stack; both onEnded have run and the key is gone,
\* while a later voice of the other note still sounds
C22_Witness ==
  /\ ~mono
  /\ timers = <<>>
  /\ Disposed = {1, 2}
  /\ pressedNotes = {}
  /\ \E n \in Notes :
       /\ DOMAIN noteStacks = {n}
       /\ noteStacks[n] = <<3>>
       /\ voice[3].freq = mtof(n)
       /\ ~voice[3].stopped

\* C23: played from a keyboard (every noteOn(n) followed by the noteOff(n)
\* of that key), with any setMono calls in between: once all keys are up,
\* every voice the engine still holds has had release() called.
C23_AllKeysUpAllReleased ==
  keysDown = {} => \A id \in DOMAIN voice : voice[id].stopped

\* the mono voice is live: in the voices map and not released
MonoVoiceLive ==
  /\ monoVoiceId # NoId
  /\ InMap(monoVoiceId)
  /\ ~voice[monoVoiceId].stopped

\* C24: when a mono noteOn returns, the key it holds has a live voice
\* (monoVoiceId is in the voices map and not released), also when the
\* noteOn arrives during the release tail of the previous mono voice; and
\* the voice stays live while no other call is made.
C24_HeldKeyHasLiveVoice ==
  [][/\ (\E n \in Notes, v \in Velocities : noteOnMono(n, v)) =>
          MonoVoiceLive'
     /\ (mono /\ pressedNotes # {} /\ MonoVoiceLive
           /\ (voiceEnded \/ \E t \in TimeGrid : Tick(t))) =>
          MonoVoiceLive']_vars

\* the stacks on which the voice id is stored, with its position
StackPlaces(id) ==
  UNION {{<<k, i>> : i \in {j \in 1..Len(noteStacks[k]) :
                              noteStacks[k][j] = id}} :
         k \in DOMAIN noteStacks}

\* C25: every voice id stored on a note stack is a key of the voices map,
\* refers to a voice that has not been released, and is stored exactly once.
C25_StackConsistency ==
  \A k \in DOMAIN noteStacks :
    \A id \in Ids(noteStacks[k]) :
      /\ InMap(id)
      /\ id \in DOMAIN voice
      /\ ~voice[id].stopped
      /\ Cardinality(StackPlaces(id)) = 1

\* a steal took the oldest voice of a note out of the map and off its
\* stack; the two voices left on stacks are the two of the map
C25_Witness ==
  /\ ~mono
  /\ voiceCounter = maxVoices + 1
  /\ voice[1].stopped /\ ~InMap(1) /\ 1 \in TimerIds
  /\ StackPlaces(1) = {}
  /\ noteStacks = (60 :> <<2>>) @@ (64 :> <<3>>)
  /\ voices = <<2, 3>>

\* C26: in the module main.js, once the Stop handler has run to its end
\* (context suspended, Stop button disabled) the voices map is empty, and it
\* stays empty until the context runs again, whatever MIDI events arrived
\* while ctx.suspend() was pending.
C26_EmptyAfterStop ==
  (stopDisabled /\ ctxState = "suspended") => mainVoices = <<>>

\* the notes other than n whose array in the Map of the classic main.js
\* holds the voice v
ClassicOtherNotesOf(v, n) ==
  {classicVoices[i].note : i \in
     {j \in 1..Len(classicVoices) :
        /\ classicVoices[j].note # n
        /\ v \in Ids(classicVoices[j].stack)}}

\* C27: in the mono mode of the classic main.js a note-off of note n stops
\* the voice mapped to n only if no other held note is mapped to that voice;
\* while another key holds it, the voice is left as it is.
C27_MonoNoteOffKeepsSharedVoice ==
  [][\A n \in Notes :
       (/\ classicOnNoteOff(n)
        /\ classicCtx /\ monoEnabled
        /\ classicGet(classicVoices, n) # <<>>) =>
         LET arr == classicGet(classicVoices, n)
             v   == arr[Len(arr)]
         IN  ClassicOtherNotesOf(v, n) # {} =>
               classicSynths'[v] = classicSynths[v]]_vars

\* the notes whose entry in the Map of the module main.js is the Synth i
MainNotesOf(i) == {n \in DOMAIN mainVoices : mainVoices[n] = i}

\* C28: in the module main.js the map holds, for each note, at most the one
\* Synth started by the last accepted note-on of that note, not stopped;
\* every Synth that is not in the map has had stop() called; an accepted
\* note-on replaces the entry of its note by a new started Synth and an
\* accepted note-off (or note-on with velocity 0) removes it, both leaving
\* the entries of the other notes alone.
C28_OneVoicePerActiveNote ==
  /\ [](\A i \in 1..Len(synths) :
          /\ MainNotesOf(i) = {} => synths[i].stopped
          /\ MainNotesOf(i) # {} =>
               /\ ~synths[i].stopped
               /\ MainNotesOf(i) = {synths[i].note})
  /\ [][\A n \in Notes, v \in MainVelocities :
          (midiOnNoteOn(n, v) /\ ctxState = "running") =>
            /\ \A k \in DOMAIN mainVoices \ {n} :
                 k \in DOMAIN mainVoices' /\ mainVoices'[k] = mainVoices[k]
            /\ DOMAIN mainVoices' \ {n} = DOMAIN mainVoices \ {n}
            /\ n \in DOMAIN mainVoices => synths'[mainVoices[n]].stopped
            /\ IF v = 0
               THEN n \notin DOMAIN mainVoices' /\ Len(synths') = Len(synths)
               ELSE /\ n \in DOMAIN mainVoices'
                    /\ mainVoices'[n] = Len(synths) + 1
                    /\ Len(synths') = Len(synths) + 1
                    /\ synths'[mainVoices'[n]] =
                         [note |-> n, velocity |-> v, stopped |-> FALSE]]_vars
  /\ [][\A n \in Notes :
          (midiOnNoteOff(n) /\ ctxState = "running") =>
            /\ n \notin DOMAIN mainVoices'
            /\ DOMAIN mainVoices' = DOMAIN mainVoices \ {n}
            /\ \A k \in DOMAIN mainVoices' : mainVoices'[k] = mainVoices[k]
            /\ n \in DOMAIN mainVoices => synths'[mainVoices[n]].stopped]_vars

\* a note was struck twice and another note once: the first Synth of the
\* repeated note has been stopped and replaced, two voices are in the map
C28_Witness ==
  /\ ctxState = "running"
  /\ Len(synths) = 3
  /\ \E n \in Notes, k \in Notes :
       /\ n # k
       /\ DOMAIN mainVoices = {n, k}
       /\ \E i \in 1..3 : synths[i].note = n /\ synths[i].stopped
       /\ synths[mainVoices[n]].note = n /\ ~synths[mainVoices[n]].stopped
       /\ synths[mainVoices[k]].note = k /\ ~synths[mainVoices[k]].stopped

\* C29: retrigger(freq, velocity) on a SynthVoice of synth.js that is
\* sounding starts the new attack ramp at the gain the voice has at that
\* instant: the gain right after the call is the gain right before it.
C29_RetriggerFromCurrentGain ==
  [][\A n \in Notes, v \in VoiceVelocities :
       (/\ svRetrigger(mtof(n), v)
        /\ synthVoice.started
        /\ ParamValue(synthVoice.outGain, 0, now) > 0) =>
         ParamValue(synthVoice'.outGain, 0, now) =
           ParamValue(synthVoice.outGain, 0, now)]_vars

\* a step of one of the three live setters of the sound of the voices
LiveSetterStep ==
  \/ \E x \in LiveOscInputs : setOscCount(x)
  \/ \E w \in WaveInputs : setWaveform(w)
  \/ \E x \in LiveDriveInputs : setDistortionDrive(x)

\* every voice of the voices map carries the engine's waveform, oscillator
\* count and drive
MapVoicesFollowParams ==
  \A id \in Ids(voices) :
    /\ voice[id].waveform = params.waveform
    /\ voice[id].oscCount = params.oscCount
    /\ voice[id].drive = params.drive

\* C30: setOscCount, setWaveform and setDistortionDrive leave the gain
\* schedule and the released flag of every voice, the voices map, noteStacks,
\* pressedNotes, monoVoiceId and the pending timers as they were, and in
\* every state each voice of the voices map has the waveform, oscillator
\* count and drive of the engine's params.
C30_LiveSettersDoNotDisturb ==
  /\ []MapVoicesFollowParams
  /\ [][LiveSetterStep =>
          /\ DOMAIN voice' = DOMAIN voice
          /\ \A id \in DOMAIN voice :
               /\ voice'[id].ampGain = voice[id].ampGain
               /\ voice'[id].stopped = voice[id].stopped
               /\ voice'[id].stopAt = voice[id].stopAt
          /\ voices' = voices
          /\ noteStacks' = noteStacks
          /\ pressedNotes' = pressedNotes
          /\ monoVoiceId' = monoVoiceId
          /\ voiceCounter' = voiceCounter
          /\ timers' = timers
          /\ MapVoicesFollowParams']_vars

\* a voice struck at time 0 still runs on the envelope of that trigger at
\* time 400, unreleased, after all three settings were changed under it
C30_Witness ==
  /\ now = 400
  /\ params.oscCount = 2 /\ params.waveform = "square" /\ params.drive = 50
  /\ \E id \in Ids(voices) :
       /\ ~voice[id].stopped
       /\ voice[id].ampGain[1] = SetEv(0, 0)
       /\ Len(voice[id].ampGain) = 3
       /\ voice[id].oscFreq[1].t = 400
       /\ voice[id].oscCount = 2
       /\ voice[id].waveform = "square"
       /\ voice[id].drive = 50

\* C31: release() on a voice that has been released changes nothing and
\* registers no timer, wherever it is called from (mono noteOff with no key
\* left, steal of the oldest voice, setMono(false)); no voice has two onEnded
\* timers pending, and none is pending for a voice whose onEnded has run.
C31_ReleaseIdempotent ==
  /\ [](\A i, j \in 1..Len(timers) : timers[i].id = timers[j].id => i = j)
  /\ [](\A id \in Disposed : id \notin TimerIds)
  /\ [][/\ \A n \in Notes :
             (/\ noteOffMono(n)
              /\ pressedNotes \ {n} = {}
              /\ monoVoiceId # NoId /\ InMap(monoVoiceId)
              /\ voice[monoVoiceId].stopped) =>
               voice' = voice /\ timers' = timers
        /\ \A n \in Notes, v \in Velocities :
             (/\ noteOnPoly(n, v)
              /\ Len(voices) + 1 > maxVoices
              /\ voice[voices[1]].stopped) =>
               voice'[voices[1]] = voice[voices[1]] /\ timers' = timers
        /\ (/\ setMono(FALSE)
            /\ monoVoiceId # NoId /\ InMap(monoVoiceId)
            /\ voice[monoVoiceId].stopped) =>
             voice' = voice /\ timers' = timers]_vars

\* a voice released by noteOff at time 0 was stolen at time 400, with its
\* timer still pending: it keeps the stop time of the first release and its
\* one timer
C31_Witness ==
  /\ ~mono
  /\ now = 400
  /\ voiceCounter = maxVoices + 1
  /\ 1 \in DOMAIN voice /\ ~InMap(1)
  /\ voice[1].stopped
  /\ voice[1].stopAt = EnvRelease + StopMargin
  /\ timers = <<[id |-> 1, due |-> EnvRelease + EndedMargin]>>
  /\ voice[voiceCounter].ampGain[1] = SetEv(0, 400)

\* C32: in PolySynth, after every noteOn and noteOff the active map has no
\* key with an empty array and lastFreq is non-null exactly when a note is
\* held; a noteOn therefore glides from the previous frequency exactly when
\* another note was still held, and otherwise sets its own frequency at once.
C32_PolyHeldBookkeeping ==
  /\ [](\A n \in DOMAIN active : active[n] # <<>>)
  /\ [](lastFreq # NullFreq <=> \E n \in DOMAIN active : Len(active[n]) > 0)
  /\ [][\A n \in Notes, v \in PolyVelocities :
          polyNoteOn(n, v) =>
            polyVoices'[Len(polyVoices')].oscFreq =
              IF \E m \in DOMAIN active : Len(active[m]) > 0
              THEN <<SetEv(lastFreq, now),
                     RampEv(mtof(n), now + polyGlideMs)>>
              ELSE <<SetEv(mtof(n), now)>>]_vars

\* a note was played and released, a second one started at its own
\* frequency, and a third one glides from the second while it is held
C32_Witness ==
  /\ Len(polyVoices) = 3
  /\ polyVoices[1].released
  /\ polyVoices[2].oscFreq = <<SetEv(mtof(60), 0)>>
  /\ polyVoices[3].oscFreq = <<SetEv(mtof(60), 400), RampEv(mtof(64), 490)>>
  /\ active = (60 :> <<2>>) @@ (64 :> <<3>>)
  /\ lastFreq = mtof(64)

\* C33: voice ids are unique.  Every voice that is created gets the id
\* voiceCounter + 1, greater than every id issued before, and the id of a
\* disposed voice is never given to a voice again; so the keys of the voices
\* map are in increasing order and the first key is the earliest-created
\* voice still in the map.
C33_VoiceIdsUnique ==
  /\ [](\A i, j \in 1..Len(voices) : i < j => voices[i] < voices[j])
  /\ [](\A i \in 1..Len(voices) :
          voices[i] \in 1..voiceCounter /\ voices[i] \in DOMAIN voice)
  /\ [](DOMAIN voice \subseteq 1..voiceCounter)
  /\ [][/\ voiceCounter' >= voiceCounter
        /\ \A id \in DOMAIN voice' \ DOMAIN voice :
             id > voiceCounter /\ id = voiceCounter'
        /\ \A i \in 1..Len(voices') :
             InMap(voices'[i]) \/ voices'[i] > voiceCounter
        /\ \A id \in Disposed :
             id \notin DOMAIN voice'
             /\ \A i \in 1..Len(voices') : voices'[i] # id]_vars

\* voice 1 has ended and is disposed; the two voices created after it are
\* in the map in the order of their creation
C33_Witness ==
  /\ voiceCounter = 3
  /\ 1 \in Disposed
  /\ voices = <<2, 3>>
  /\ DOMAIN voice = {2, 3}

\* C34: monoVoiceId is null whenever params.mono is false, and a non-null
\* monoVoiceId is a key of the voices map and is on no note stack; so the
\* voice a polyphonic noteOn steals is never the mono voice.
C34_MonoVoiceIdBookkeeping ==
  /\ [](~mono => monoVoiceId = NoId)
  /\ [](monoVoiceId # NoId =>
          /\ InMap(monoVoiceId)
          /\ \A k \in DOMAIN noteStacks :
               \A i \in 1..Len(noteStacks[k]) :
                 noteStacks[k][i] # monoVoiceId)
  /\ [][\A n \in Notes, v \in Velocities :
          (noteOnPoly(n, v) /\ overLimit(Append(voices, nextId(voiceCounter))))
            => /\ monoVoiceId = NoId
               /\ oldestKey(Append(voices, nextId(voiceCounter)))
                    # monoVoiceId']_vars

\* a polyphonic voice is still on its stack while mono mode holds a voice
\* of its own
C34_Witness ==
  /\ mono
  /\ monoVoiceId = 2
  /\ voices = <<1, 2>>
  /\ noteStacks = (60 :> <<1>>)
  /\ pressedNotes = {64}

====
